---- MODULE Spec2Model ----
(***************************************************************************)
(* SalesDashboard (src/app.py): the data pipeline of the dashboard session *)
(* object.  A data frame is a record [columns, rows]; a row is a record    *)
(* with one field per column.  Text cells are strings, numeric cells are   *)
(* integers, and a missing numeric cell (NaN / pd.NA) is the value NaN.    *)
(***************************************************************************)
EXTENDS Integers, Sequences, FiniteSets, TLC

VARIABLES df,               \* self.df: the session dataset, or None
          all_mat_periods,  \* self.all_mat_periods
          ret               \* the call that returned last and what it returned

vars == <<df, all_mat_periods, ret>>

(***************************************************************************)
(* Bounds of the model                                                     *)
(***************************************************************************)
MaxRows == 2

(***************************************************************************)
(* Values                                                                  *)
(***************************************************************************)
None == [none |-> TRUE]

\* the missing numeric value produced by pd.to_numeric(errors='coerce')
NaN == -1

\* Year is a text column after ingestion (astype(str)): the texts the model
\* draws from; "nan" is what astype(str) makes of a missing cell
YearTexts == {"2022", "2023", "nan"}

\* Month is a nullable integer column after ingestion
MonthCells == {1, 12, 13, 101, NaN}

\* pd.to_numeric(text, errors='coerce') on the texts of the model
ToNumeric(v) ==
    CASE v = "2021" -> 2021
      [] v = "2022" -> 2022
      [] v = "2023" -> 2023
      [] OTHER      -> NaN

\* pd.to_numeric on the Month column, already numeric: values are kept
MonthToNumeric(v) == v

IsNa(v) == v = NaN

\* the cap on the number of generated periods
MaxMatPeriods == 24

\* month_names with every abbreviation moved one month down
month_names_shifted ==
    [m \in 1..12 |->
        CASE m = 1 -> "FEB" [] m = 2 -> "MAR" [] m = 3 -> "APR"
          [] m = 4 -> "MAY" [] m = 5 -> "JUN" [] m = 6 -> "JUL"
          [] m = 7 -> "AUG" [] m = 8 -> "SEP" [] m = 9 -> "OCT"
          [] m = 10 -> "NOV" [] m = 11 -> "DEC" [] OTHER -> "JAN"]

\* month_names of calculate_all_mat_periods
month_names ==
    [m \in 1..12 |->
        CASE m = 1 -> "JAN" [] m = 2 -> "FEB" [] m = 3 -> "MAR"
          [] m = 4 -> "APR" [] m = 5 -> "MAY" [] m = 6 -> "JUN"
          [] m = 7 -> "JUL" [] m = 8 -> "AUG" [] m = 9 -> "SEP"
          [] m = 10 -> "OCT" [] m = 11 -> "NOV" [] OTHER -> "DEC"]

(***************************************************************************)
(* Sequence helpers                                                        *)
(***************************************************************************)
RECURSIVE SelectRows(_, _)
\* the rows of s whose index satisfies keep, in order (boolean indexing)
SelectRows(s, keep) ==
    IF s = <<>> THEN <<>>
    ELSE LET n == Len(s)
             front == SelectRows(SubSeq(s, 1, n - 1), keep)
         IN IF keep[n] THEN Append(front, s[n]) ELSE front

Reverse(s) == [i \in 1..Len(s) |-> s[Len(s) + 1 - i]]

SetMin(S) == CHOOSE x \in S : \A y \in S : x <= y
SetMax(S) == CHOOSE x \in S : \A y \in S : x >= y

(***************************************************************************)
(* calculate_all_mat_periods                                               *)
(***************************************************************************)
RECURSIVE MatMonths(_, _, _, _)
\* the inner loop: i of range(12) left to do, appending (mat_year, mat_month)
MatMonths(mat_year, mat_month, i, mat_months) ==
    IF i = 0 THEN mat_months
    ELSE LET m == mat_month - 1
         IN IF m = 0
            THEN MatMonths(mat_year - 1, 12, i - 1,
                           Append(mat_months, <<mat_year, mat_month>>))
            ELSE MatMonths(mat_year, m, i - 1,
                           Append(mat_months, <<mat_year, mat_month>>))

\* MatPeriod without mat_months[::-1]: the months stay newest first
MatPeriodUnreversed(current_year, current_month) ==
    [label     |-> <<"MAT", month_names[current_month], current_year>>,
     months    |-> MatMonths(current_year, current_month, 12, <<>>),
     end_year  |-> current_year,
     end_month |-> current_month]

\* one period: the dict appended at the end of an iteration
MatPeriod(current_year, current_month) ==
    [label     |-> <<"MAT", month_names[current_month], current_year>>,
     months    |-> Reverse(MatMonths(current_year, current_month, 12, <<>>)),
     end_year  |-> current_year,
     end_month |-> current_month]

RECURSIVE MatLoopUncapped(_, _, _, _, _, _)
\* MatLoop without the test mat_count < 24
MatLoopUncapped(current_year, current_month, earliest_year, earliest_month, mat_count, periods) ==
    IF \/ current_year > earliest_year
       \/ current_year = earliest_year /\ current_month >= earliest_month
    THEN IF current_month \notin DOMAIN month_names
         THEN [raised |-> TRUE, periods |-> periods]
         ELSE LET p == MatPeriod(current_year, current_month)
                  m == current_month - 1
              IN IF m = 0
                 THEN MatLoopUncapped(current_year - 1, 12, earliest_year,
                                      earliest_month, mat_count + 1,
                                      Append(periods, p))
                 ELSE MatLoopUncapped(current_year, m, earliest_year,
                                      earliest_month, mat_count + 1,
                                      Append(periods, p))
    ELSE [raised |-> FALSE, periods |-> periods]

RECURSIVE MatLoopStrict(_, _, _, _, _, _)
\* MatLoop with current_month > earliest_month in place of >=
MatLoopStrict(current_year, current_month, earliest_year, earliest_month, mat_count, periods) ==
    IF /\ \/ current_year > earliest_year
          \/ current_year = earliest_year /\ current_month > earliest_month
       /\ mat_count < MaxMatPeriods
    THEN IF current_month \notin DOMAIN month_names
         THEN [raised |-> TRUE, periods |-> periods]
         ELSE LET p == MatPeriod(current_year, current_month)
                  m == current_month - 1
              IN IF m = 0
                 THEN MatLoopStrict(current_year - 1, 12, earliest_year,
                                    earliest_month, mat_count + 1,
                                    Append(periods, p))
                 ELSE MatLoopStrict(current_year, m, earliest_year,
                                    earliest_month, mat_count + 1,
                                    Append(periods, p))
    ELSE [raised |-> FALSE, periods |-> periods]

RECURSIVE MatLoop(_, _, _, _, _, _)
\* the while loop; the result is [raised, periods], raised when the lookup
\* month_names[current_month] raises KeyError
MatLoop(current_year, current_month, earliest_year, earliest_month, mat_count, periods) ==
    IF /\ \/ current_year > earliest_year
          \/ current_year = earliest_year /\ current_month >= earliest_month
       /\ mat_count < MaxMatPeriods
    THEN IF current_month \notin DOMAIN month_names
         THEN [raised |-> TRUE, periods |-> periods]
         ELSE LET p == MatPeriod(current_year, current_month)
                  m == current_month - 1
              IN IF m = 0
                 THEN MatLoop(current_year - 1, 12, earliest_year,
                              earliest_month, mat_count + 1, Append(periods, p))
                 ELSE MatLoop(current_year, m, earliest_year,
                              earliest_month, mat_count + 1, Append(periods, p))
    ELSE [raised |-> FALSE, periods |-> periods]

(***************************************************************************)
(* Data frames                                                             *)
(***************************************************************************)
Frame(columns, rows) == [columns |-> columns, rows |-> rows]

\* pd.DataFrame(): no column, no row
EmptyFrame == Frame({}, <<>>)

\* df.empty: a frame without rows or without columns
IsEmpty(d) == d.rows = <<>> \/ d.columns = {}

\* work_df[name] = values: the frame with column name set to values[i] in row i
WithColumn(d, name, values) ==
    Frame(d.columns \cup {name},
          [i \in 1..Len(d.rows) |->
              [c \in d.columns \cup {name} |->
                  IF c = name THEN values[i] ELSE d.rows[i][c]]])

\* df.drop(columns=names, errors='ignore')
DropColumns(d, names) ==
    Frame(d.columns \ names,
          [i \in 1..Len(d.rows) |-> [c \in d.columns \ names |-> d.rows[i][c]]])

\* pd.to_numeric(d[column], errors='coerce') as a sequence of values
NumericColumn(d, column) ==
    [i \in 1..Len(d.rows) |->
        IF column = "Month" THEN MonthToNumeric(d.rows[i][column])
                            ELSE ToNumeric(d.rows[i][column])]

\* the two assignments work_df['Month_num'] = ..., work_df['Year_num'] = ...
WithNumericYearMonth(d) ==
    WithColumn(WithColumn(d, "Month_num", NumericColumn(d, "Month")),
               "Year_num", NumericColumn(d, "Year"))

\* work_df.dropna(subset=['Year_num', 'Month_num'])
DropNa(d) ==
    Frame(d.columns,
          SelectRows(d.rows, [i \in 1..Len(d.rows) |->
              ~IsNa(d.rows[i].Year_num) /\ ~IsNa(d.rows[i].Month_num)]))

(***************************************************************************)
(* calculate_all_mat_periods: the frames it works on and its result        *)
(***************************************************************************)
\* work_df = self.df.copy() and the two column assignments on the copy:
\* source is self.df once they are done, work is work_df
MatWorkDf(d) == [source |-> d, work |-> WithNumericYearMonth(d)]

\* YearMonth_num of the rows of work_df
YearMonthNums(work) ==
    {work.rows[i].Year_num * 100 + work.rows[i].Month_num : i \in 1..Len(work.rows)}

\* the result is [source, value]: self.df after the call and the list returned
calculate_all_mat_periods(d) ==
    IF d = None
    THEN [source |-> d, value |-> <<>>]
    ELSE IF "Month" \notin d.columns \/ "Year" \notin d.columns
    THEN [source |-> d, value |-> <<>>]
    ELSE LET w    == MatWorkDf(d)
             work == DropNa(w.work)
         IN IF IsEmpty(work)
            THEN [source |-> w.source, value |-> <<>>]
            ELSE LET yms         == YearMonthNums(work)
                     earliest_ym == SetMin(yms)
                     latest_ym   == SetMax(yms)
                     run == MatLoop(latest_ym \div 100, latest_ym % 100,
                                    earliest_ym \div 100, earliest_ym % 100,
                                    0, <<>>)
                 IN [source |-> w.source,
                     value  |-> IF run.raised THEN <<>> ELSE run.periods]

(***************************************************************************)
(* filter_data                                                             *)
(***************************************************************************)
\* filtered_df[filtered_df[column].isin(values)]
Isin(d, column, values) ==
    Frame(d.columns,
          SelectRows(d.rows, [i \in 1..Len(d.rows) |-> d.rows[i][column] \in values]))

\* FilterStep without the test 'All' not in values
FilterStepNoAll(filtered_df, column, values) ==
    IF values # {} /\ column \in filtered_df.columns
    THEN Isin(filtered_df, column, values)
    ELSE filtered_df

\* one iteration of the loop over filters.items()
FilterStep(filtered_df, column, values) ==
    IF values # {} /\ "All" \notin values /\ column \in filtered_df.columns
    THEN Isin(filtered_df, column, values)
    ELSE filtered_df

RECURSIVE FilterLoop(_, _, _)
\* the loop over filters.items(), todo being the keys still to visit
FilterLoop(filtered_df, filters, todo) ==
    IF todo = {} THEN filtered_df
    ELSE LET column == CHOOSE c \in todo : TRUE
         IN FilterLoop(FilterStep(filtered_df, column, filters[column]),
                       filters, todo \ {column})

\* the result is [source, value]: self.df after the call and the frame returned
filter_data(d, filters) ==
    IF d = None
    THEN [source |-> d, value |-> EmptyFrame]
    ELSE [source |-> d, value |-> FilterLoop(d, filters, DOMAIN filters)]

(***************************************************************************)
(* filter_data_by_mat                                                      *)
(***************************************************************************)
\* FilterWorkDf with work_df = df instead of df.copy(): the assignments reach
\* the frame passed in
FilterWorkDfAliased(d) ==
    [source |-> WithNumericYearMonth(d), work |-> WithNumericYearMonth(d)]

\* work_df = df.copy() and the two column assignments on the copy: source is
\* the frame passed in once they are done, work is work_df
FilterWorkDf(d) == [source |-> d, work |-> WithNumericYearMonth(d)]

\* the lambda of work_df.apply: int() of a missing value raises
RowRaises(row) == IsNa(row.Year_num) \/ IsNa(row.Month_num)

\* RowInMat with the membership test negated
RowNotInMat(row, mat_months) == <<row.Year_num, row.Month_num>> \notin mat_months

RowInMat(row, mat_months) == <<row.Year_num, row.Month_num>> \in mat_months

\* the result is [source, value]: the frame passed in after the call and the
\* frame returned
filter_data_by_mat(d, mat_months) ==
    IF IsEmpty(d) \/ mat_months = {}
    THEN [source |-> d, value |-> d]
    ELSE IF "Month" \notin d.columns \/ "Year" \notin d.columns
    THEN [source |-> d, value |-> d]                 \* KeyError, caught
    ELSE LET w == FilterWorkDf(d)
         IN IF \E i \in 1..Len(w.work.rows) : RowRaises(w.work.rows[i])
            THEN [source |-> w.source, value |-> w.source]   \* caught
            ELSE [source |-> w.source,
                  value  |-> DropColumns(
                      Frame(w.work.columns,
                            SelectRows(w.work.rows,
                                [i \in 1..Len(w.work.rows) |->
                                    RowInMat(w.work.rows[i], mat_months)])),
                      {"Year_num", "Month_num"})]

(***************************************************************************)
(* Aggregations: groupby, merge, sort                                      *)
(***************************************************************************)
\* the texts of the model in the order Python compares strings
SortedTexts == <<"2021", "2022", "2023", "Barisal", "Dhaka", "Khulna", "nan">>

TextRank(v) == CHOOSE k \in 1..Len(SortedTexts) : SortedTexts[k] = v

\* group keys are tuples of texts, of one length; tuple comparison
KeyLess(a, b) ==
    \E j \in 1..Len(a) :
        /\ TextRank(a[j]) < TextRank(b[j])
        /\ \A k \in 1..(j - 1) : a[k] = b[k]

RECURSIVE SortedKeys(_)
\* the keys of S in ascending order: groupby sorts its group keys
SortedKeys(S) ==
    IF S = {} THEN <<>>
    ELSE LET least == CHOOSE a \in S : \A b \in S \ {a} : KeyLess(a, b)
         IN <<least>> \o SortedKeys(S \ {least})

KeyOf(row, group_cols) == [j \in 1..Len(group_cols) |-> row[group_cols[j]]]

RECURSIVE SumCells(_, _, _, _, _)
\* the sum of value_col over the first n rows of d that belong to group key
SumCells(d, group_cols, value_col, key, n) ==
    IF n = 0 THEN [sum |-> 0, count |-> 0]
    ELSE LET rest == SumCells(d, group_cols, value_col, key, n - 1)
         IN IF KeyOf(d.rows[n], group_cols) = key
            THEN [sum |-> rest.sum + d.rows[n][value_col],
                  count |-> rest.count + 1]
            ELSE rest

\* df.groupby(group_cols)[value_col].sum() / .mean(), then reset_index(): one
\* row per group key, keys ascending; a mean is kept as the pair it divides
GroupBy(d, group_cols, value_col, agg_type) ==
    LET keys == SortedKeys({KeyOf(d.rows[i], group_cols) : i \in 1..Len(d.rows)})
    IN [k \in 1..Len(keys) |->
           LET cell == SumCells(d, group_cols, value_col, keys[k], Len(d.rows))
           IN [key   |-> keys[k],
               value |-> IF agg_type = "sum" THEN <<cell.sum>>
                                             ELSE <<cell.sum, cell.count>>]]

RECURSIVE MergeInner(_, _)
\* Merge with how='inner': a left row without a match is dropped
MergeInner(left_rows, agg_data) ==
    IF left_rows = <<>> THEN <<>>
    ELSE LET n       == Len(left_rows)
             g       == left_rows[n]
             matches == SelectRows(agg_data,
                            [k \in 1..Len(agg_data) |-> agg_data[k].AdmDiv = g.AdmDiv])
             joined  == [k \in 1..Len(matches) |->
                            [AdmDiv |-> g.AdmDiv, geometry |-> g.geometry,
                             Value |-> matches[k].Value]]
         IN MergeInner(SubSeq(left_rows, 1, n - 1), agg_data) \o joined

RECURSIVE Merge(_, _)
\* gdf.merge(agg_data, on='AdmDiv', how='left'): every left row once per
\* matching right row, and once with a missing Value when none matches
Merge(left_rows, agg_data) ==
    IF left_rows = <<>> THEN <<>>
    ELSE LET n       == Len(left_rows)
             g       == left_rows[n]
             matches == SelectRows(agg_data,
                            [k \in 1..Len(agg_data) |-> agg_data[k].AdmDiv = g.AdmDiv])
             joined  == IF matches = <<>>
                        THEN <<[AdmDiv |-> g.AdmDiv, geometry |-> g.geometry,
                                Value |-> NaN]>>
                        ELSE [k \in 1..Len(matches) |->
                                 [AdmDiv |-> g.AdmDiv, geometry |-> g.geometry,
                                  Value |-> matches[k].Value]]
         IN Merge(SubSeq(left_rows, 1, n - 1), agg_data) \o joined

\* map_data['Value'].fillna(0)
FillNa(rows) ==
    [k \in 1..Len(rows) |->
        [rows[k] EXCEPT !.Value = IF IsNa(@) THEN 0 ELSE @]]

RECURSIVE SortDescending(_)
\* sort_values(y_col, ascending=False); equal values keep their order
SortDescending(rows) ==
    IF rows = <<>> THEN <<>>
    ELSE LET top == CHOOSE k \in 1..Len(rows) :
                        /\ \A j \in 1..Len(rows) : rows[k].value[1] >= rows[j].value[1]
                        /\ \A j \in 1..(k - 1) : rows[j].value[1] < rows[k].value[1]
         IN <<rows[top]>> \o
            SortDescending(SelectRows(rows, [j \in 1..Len(rows) |-> j # top]))

\* go.Figure(): the empty result
EmptyFigure == [kind |-> "empty"]

Returned(figure) == [raised |-> FALSE, figure |-> figure]

\* a KeyError that leaves the method
Raised == [raised |-> TRUE, figure |-> EmptyFigure]

(***************************************************************************)
(* create_choropleth_map, create_trend_chart, create_bar_chart             *)
(***************************************************************************)
\* agg_data and map_data of create_choropleth_map
MapData(d, gdf, adm_col, value_col) ==
    LET grouped  == GroupBy(d, <<adm_col>>, value_col, "sum")
        agg_data == [k \in 1..Len(grouped) |->
                        [AdmDiv |-> grouped[k].key[1], Value |-> grouped[k].value[1]]]
    IN FillNa(Merge(gdf.rows, agg_data))

create_choropleth_map(d, gdf, adm_col, value_col) ==
    IF IsEmpty(d) \/ gdf = None
    THEN Returned(EmptyFigure)
    ELSE IF adm_col \notin d.columns
    THEN Returned(EmptyFigure)
    ELSE IF value_col \notin d.columns
    THEN Raised                              \* df.groupby(adm_col)[value_col]
    ELSE Returned([kind |-> "choropleth", map_data |-> MapData(d, gdf, adm_col, value_col)])

\* trend_data.sort_values(time_col): the keys start with time_col and are
\* ascending already
create_trend_chart(d, time_col, value_var, group_by_params, agg_type) ==
    IF IsEmpty(d) \/ time_col \notin d.columns \/ value_var \notin d.columns
    THEN Returned(EmptyFigure)
    ELSE IF group_by_params # <<>>
    THEN LET group_cols == <<time_col>> \o group_by_params
         IN IF \E j \in 1..Len(group_cols) : group_cols[j] \notin d.columns
            THEN Raised                      \* df.groupby(group_cols)
            ELSE Returned([kind |-> "line", color |-> group_by_params[1],
                           trend_data |-> GroupBy(d, group_cols, value_var, agg_type)])
    ELSE Returned([kind |-> "line", color |-> "",
                   trend_data |-> GroupBy(d, <<time_col>>, value_var, agg_type)])

create_bar_chart(d, x_col, y_col) ==
    IF IsEmpty(d) \/ x_col \notin d.columns \/ y_col \notin d.columns
    THEN Returned(EmptyFigure)
    ELSE Returned([kind |-> "bar",
                   chart_data |-> SortDescending(GroupBy(d, <<x_col>>, y_col, "sum"))])

(***************************************************************************)
(* The datasets a session is initialised with                              *)
(***************************************************************************)
AdmDivTexts == {"Dhaka", "Khulna"}
Amounts == {2, 5}

Row(columns, y, m, a, v) ==
    [c \in columns |->
        CASE c = "Year"   -> y
          [] c = "Month"  -> m
          [] c = "AdmDiv" -> a
          [] OTHER        -> v]

RowsOver(columns, Y, M, A, V) ==
    {Row(columns, y, m, a, v) : y \in Y, m \in M, a \in A, v \in V}

FramesOver(columns, Y, M, A, V) ==
    {Frame(columns, rows) :
        rows \in UNION {[1..n -> RowsOver(columns, Y, M, A, V)] : n \in 0..MaxRows}}

\* datasets of the period calculator: the time columns, every cell of the model
PeriodColumnSets == {{"Year", "Month"}, {"Year"}, {"Month"}}

PeriodFrames ==
    UNION {FramesOver(cs, YearTexts, MonthCells, {"Dhaka"}, {2}) :
              cs \in PeriodColumnSets}

\* datasets of the filters and the aggregations: sales rows
SalesColumnSets ==
    {{"Year", "Month", "AdmDiv", "Amount_(BDT)"},
     {"Year", "Month", "Amount_(BDT)"},
     {"Year", "Month", "AdmDiv"}}

SalesFrames ==
    UNION {FramesOver(cs, {"2022", "2023"}, {1}, AdmDivTexts, Amounts) :
              cs \in SalesColumnSets}

\* datasets whose months run over more than two years
SpanFrames ==
    FramesOver({"Year", "Month"}, {"2021", "2022", "2023"}, {1, 12}, {"Dhaka"}, {2})

Datasets == PeriodFrames \cup SalesFrames \cup SpanFrames

(***************************************************************************)
(* The arguments the operations are called with                            *)
(***************************************************************************)
\* allowed values of a filter entry, by column
YearAllowed == {{}, {"All"}, {"2023"}}
AdmDivAllowed == {{"All", "Dhaka"}, {"Dhaka"}}

\* filters: a dict from column names to allowed values; Brand is a column no
\* dataset of the model has
Filters ==
    {[Year |-> y] : y \in YearAllowed}
        \cup {[Brand |-> {"Acme"}]}
        \cup {[Year |-> y, AdmDiv |-> a] : y \in YearAllowed, a \in AdmDivAllowed}

\* the (year, month) pairs a MAT window is made of
MatPairs == {<<2023, 1>>, <<2023, 12>>}

MatMonthSets == SUBSET MatPairs

\* boundary collections: a frame of polygons with their AdmDiv, or None when
\* the shapefile could not be loaded
Boundaries(names) ==
    Frame({"AdmDiv", "geometry"},
          [k \in 1..Len(names) |-> [AdmDiv |-> names[k], geometry |-> k]])

Gdfs == {None, Boundaries(<<"Dhaka", "Barisal">>),
         Boundaries(<<"Khulna", "Dhaka", "Dhaka">>)}

GroupByParams == {<<>>, <<"AdmDiv">>}

AggTypes == {"sum", "mean"}

(***************************************************************************)
(* load_data_from_upload: the uploaded file                                *)
(***************************************************************************)
\* Bound of the uploads: the number of data lines after the header
MaxLines == 2

\* An uploaded file is [content, bad]: content is its lines, the header line
\* first, each a tuple of raw cells; bad is the line that holds a byte which
\* is not valid UTF-8, or 0 when the whole content is valid UTF-8
HeaderLines ==
    {<<"Year", "Month", "AdmDiv", "Amount_(BDT)">>,
     <<"Year", "Month", " AdmDiv", "Amount_(BDT) ">>}

\* raw cells by position; "" is an empty cell
DataLines == {"2023"} \X {"1", ""} \X {" dhaka", ""} \X {"100", "bad", ""}

\* the data lines of a file: up to MaxLines lines, or one line repeated once
\* more than that, which is when a text column holds few enough distinct
\* values to be made categorical
LineSeqs ==
    UNION {[1..n -> DataLines] : n \in 0..MaxLines}
        \cup {[i \in 1..(MaxLines + 1) |-> l] : l \in DataLines}

Uploads ==
    {[content |-> <<h>> \o lines, bad |-> b] :
        h \in HeaderLines, lines \in LineSeqs, b \in 0..(MaxLines + 2)}

\* the encodings list
encodings == <<"utf-8", "latin1", "iso-8859-1", "cp1252">>

\* whether decoding the lines after position pos succeeds: Latin-1 maps every
\* byte, the other codecs reject the byte of line bad
Decodes(encoding, u, pos) ==
    \/ encoding \in {"latin1", "iso-8859-1"}
    \/ u.bad <= pos
    \/ u.bad > Len(u.content)

\* df.columns.str.strip() and .str.strip().str.title() on the texts of the model
Strip(v) ==
    CASE v = " AdmDiv"       -> "AdmDiv"
      [] v = "Amount_(BDT) " -> "Amount_(BDT)"
      [] v = " dhaka"        -> "dhaka"
      [] OTHER               -> v

Title(v) ==
    CASE v = "dhaka" -> "Dhaka"
      [] v = "nan"   -> "Nan"
      [] OTHER       -> v

\* the number a raw text parses to, NaN when it does not parse
ParseNumber(v) ==
    CASE v = "1" -> 1 [] v = "1.0" -> 1
      [] v = "100" -> 100 [] v = "100.0" -> 100
      [] v = "2023" -> 2023 [] v = "2023.0" -> 2023
      [] OTHER -> NaN

\* str() of a float cell
FloatText(v) ==
    CASE v = "1" -> "1.0"
      [] v = "100" -> "100.0"
      [] v = "2023" -> "2023.0"
      [] OTHER -> v

\* the name pd.read_csv gives to column j (from 1) of a header line
HeaderName(cell, j) ==
    IF cell # "" THEN cell
    ELSE CASE j = 1 -> "Unnamed: 0" [] j = 2 -> "Unnamed: 1"
           [] j = 3 -> "Unnamed: 2" [] OTHER -> "Unnamed: 3"

\* the dtype pd.read_csv infers for a column from its raw cells
InferDtype(cells) ==
    IF cells = <<>> \/ \E i \in 1..Len(cells) : cells[i] # "" /\ IsNa(ParseNumber(cells[i]))
    THEN "object"
    ELSE IF \E i \in 1..Len(cells) : cells[i] = "" THEN "float64" ELSE "int64"

\* the frame pd.read_csv builds from the lines after position pos: raw is the
\* cells as read, dtype the dtype of each column
ReadFrame(u, pos) ==
    LET header == u.content[pos + 1]
        lines  == SubSeq(u.content, pos + 2, Len(u.content))
        width  == Len(header)
        names  == [j \in 1..width |-> HeaderName(header[j], j)]
        index(c) == CHOOSE j \in 1..width : names[j] = c
        columns  == {names[j] : j \in 1..width}
    IN [columns |-> columns,
        rows    |-> [i \in 1..Len(lines) |-> [c \in columns |-> lines[i][index(c)]]],
        dtype   |-> [c \in columns |->
                        InferDtype([i \in 1..Len(lines) |-> lines[i][index(c)]])]]

RECURSIVE TryEncodings(_, _, _, _)
\* the loop over encodings, from encodings[k], the file being at position pos:
\* an attempt that raises UnicodeDecodeError leaves the file where its reads
\* stopped, at consumed lines, and nothing rewinds it; an attempt on a file
\* with nothing left to read raises EmptyDataError, which leaves the loop
TryEncodings(u, k, pos, consumed) ==
    IF k > Len(encodings) THEN [df |-> None, raised |-> FALSE]
    ELSE IF ~Decodes(encodings[k], u, pos)
    THEN TryEncodings(u, k + 1, consumed, consumed)
    ELSE IF pos >= Len(u.content)
    THEN [df |-> None, raised |-> TRUE]
    ELSE [df |-> ReadFrame(u, pos), raised |-> FALSE]

(***************************************************************************)
(* load_data_from_upload: typing and derived columns                       *)
(***************************************************************************)
numeric_cols == {"Qty_(Pcs)", "Qty_(KG)", "Amount_(BDT)"}

\* df.columns = df.columns.str.strip()
StripColumns(d) ==
    [columns |-> {Strip(c) : c \in d.columns},
     rows    |-> [i \in 1..Len(d.rows) |->
                     [c \in {Strip(x) : x \in d.columns} |->
                         d.rows[i][CHOOSE x \in d.columns : Strip(x) = c]]],
     dtype   |-> [c \in {Strip(x) : x \in d.columns} |->
                     d.dtype[CHOOSE x \in d.columns : Strip(x) = c]]]

\* the measure coercion without its .fillna(0)
FillZeroOmitted(v) == v

\* .fillna(0) on a numeric cell
FillZero(v) == IF IsNa(v) THEN 0 ELSE v

\* pd.to_numeric(df[col], errors='coerce').fillna(0) on a raw cell
MeasureCell(v) == FillZero(ParseNumber(v))

\* .astype(str) on a raw cell of a column of dtype t: the text of a missing
\* cell is "nan"
AsStr(v, t) ==
    IF v = "" THEN "nan" ELSE IF t = "float64" THEN FloatText(v) ELSE v

\* .fillna('Unknown') on a text cell: it replaces a missing cell
FillUnknown(v) == IF v = "" THEN "Unknown" ELSE v

\* df[col].astype(str).fillna('Unknown')
TextCell(v, t) == FillUnknown(AsStr(v, t))

\* month_number_to_name
month_number_to_name(month_num) ==
    IF IsNa(month_num) THEN "Unknown"
    ELSE CASE month_num = 1 -> "January" [] month_num = 2 -> "February"
           [] month_num = 3 -> "March" [] month_num = 4 -> "April"
           [] month_num = 5 -> "May" [] month_num = 6 -> "June"
           [] month_num = 7 -> "July" [] month_num = 8 -> "August"
           [] month_num = 9 -> "September" [] month_num = 10 -> "October"
           [] month_num = 11 -> "November" [] month_num = 12 -> "December"
           [] OTHER -> "Unknown"

\* df['Year'].astype(str) + '-' + df['Month'].astype(str).str.zfill(2)
YearMonthText(year, month) ==
    CASE year = "2023" /\ month = 1 -> "2023-01"
      [] year = "2023" /\ IsNa(month) -> "2023-<NA>"
      [] OTHER -> "?"

\* the typing of the columns: measures to numbers, the others to text
TypedFrame(d) ==
    Frame(d.columns,
          [i \in 1..Len(d.rows) |->
              [c \in d.columns |->
                  IF c \in numeric_cols THEN MeasureCell(d.rows[i][c])
                  ELSE TextCell(d.rows[i][c], d.dtype[c])]])

\* the AdmDiv, Month, MonthName and YearMonth steps
DerivedFrame(d) ==
    LET adm == IF "AdmDiv" \in d.columns
               THEN WithColumn(d, "AdmDiv",
                        [i \in 1..Len(d.rows) |-> Title(Strip(d.rows[i].AdmDiv))])
               ELSE d
        mon == IF "Month" \in adm.columns
               THEN LET nums == [i \in 1..Len(adm.rows) |-> ParseNumber(adm.rows[i].Month)]
                    IN WithColumn(WithColumn(adm, "Month", nums), "MonthName",
                           [i \in 1..Len(adm.rows) |-> month_number_to_name(nums[i])])
               ELSE adm
    IN IF "Year" \in mon.columns /\ "Month" \in mon.columns
       THEN WithColumn(mon, "YearMonth",
                [i \in 1..Len(mon.rows) |->
                    YearMonthText(mon.rows[i].Year, mon.rows[i].Month)])
       ELSE mon

\* the columns select_dtypes(include=['object']) finds: the text columns
ObjectColumns(d) == d.columns \ (numeric_cols \cup {"Month"})

\* the memory optimization loop: the result is [raised, category], raised
\* when len(df) is 0 and a ratio is computed
MemoryOptimization(d) ==
    IF ObjectColumns(d) # {} /\ Len(d.rows) = 0
    THEN [raised |-> TRUE, category |-> {}]
    ELSE [raised   |-> FALSE,
          category |-> {c \in ObjectColumns(d) :
                           2 * Cardinality({d.rows[i][c] : i \in 1..Len(d.rows)})
                               < Len(d.rows)}]

\* the steps before the memory optimization: None, or the frame they build
IngestedFrame(u, consumed) ==
    LET read == TryEncodings(u, 1, 0, consumed)
    IN IF read.df = None THEN None
       ELSE DerivedFrame(TypedFrame(StripColumns(read.df)))

\* the value load_data_from_upload returns: None, or the frame with the set
\* of its columns that were made categorical
load_data_from_upload(u, consumed) ==
    LET d == IngestedFrame(u, consumed)
    IN IF d = None THEN None
       ELSE LET m == MemoryOptimization(d)
            IN IF m.raised THEN None
               ELSE [columns |-> d.columns, rows |-> d.rows, category |-> m.category]

\* where the reads of a failed attempt can stop: past the undecodable byte
Consumed(u) ==
    IF u.bad = 0 \/ u.bad > Len(u.content) THEN {0} ELSE u.bad..Len(u.content)

(***************************************************************************)
(* Operations                                                              *)
(***************************************************************************)
Init ==
    /\ df = None
    /\ all_mat_periods = None
    /\ ret = [op |-> "__init__"]

\* initialize_data(df) on a fresh session object
InitializeData(d) ==
    /\ df = None
    /\ df' = calculate_all_mat_periods(d).source
    /\ all_mat_periods' = calculate_all_mat_periods(d).value
    /\ ret' = [op |-> "initialize_data"]

\* a call of calculate_all_mat_periods()
CalculateAllMatPeriods ==
    /\ LET r == calculate_all_mat_periods(df)
       IN /\ df' = r.source
          /\ ret' = [op |-> "calculate_all_mat_periods", value |-> r.value]
    /\ UNCHANGED all_mat_periods

\* a call of filter_data(filters)
FilterData(filters) ==
    /\ LET r == filter_data(df, filters)
       IN /\ df' = r.source
          /\ ret' = [op |-> "filter_data", filters |-> filters, value |-> r.value]
    /\ UNCHANGED all_mat_periods

\* a call of filter_data_by_mat(df, mat_months) on the session dataset
FilterDataByMat(mat_months) ==
    /\ df # None
    /\ LET r == filter_data_by_mat(df, mat_months)
       IN /\ df' = r.source
          /\ ret' = [op |-> "filter_data_by_mat", frame |-> df,
                     mat_months |-> mat_months, value |-> r.value]
    /\ UNCHANGED all_mat_periods

\* a call of create_choropleth_map(df, gdf) on the session dataset
CreateChoroplethMap(gdf) ==
    /\ df # None
    /\ ret' = [op |-> "create_choropleth_map", frame |-> df, gdf |-> gdf,
               adm_col |-> "AdmDiv", value_col |-> "Amount_(BDT)",
               result |-> create_choropleth_map(df, gdf, "AdmDiv", "Amount_(BDT)")]
    /\ UNCHANGED <<df, all_mat_periods>>

\* a call of create_trend_chart(df, 'Year', 'Amount_(BDT)', ...) on the
\* session dataset
CreateTrendChart(group_by_params, agg_type) ==
    /\ df # None
    /\ ret' = [op |-> "create_trend_chart", frame |-> df, time_col |-> "Year",
               value_var |-> "Amount_(BDT)", group_by_params |-> group_by_params,
               agg_type |-> agg_type,
               result |-> create_trend_chart(df, "Year", "Amount_(BDT)",
                                             group_by_params, agg_type)]
    /\ UNCHANGED <<df, all_mat_periods>>

\* a call of create_bar_chart(df, 'AdmDiv', 'Amount_(BDT)') on the session
\* dataset
CreateBarChart ==
    /\ df # None
    /\ ret' = [op |-> "create_bar_chart", frame |-> df, x_col |-> "AdmDiv",
               y_col |-> "Amount_(BDT)",
               result |-> create_bar_chart(df, "AdmDiv", "Amount_(BDT)")]
    /\ UNCHANGED <<df, all_mat_periods>>

Next ==
    \/ \E d \in Datasets : InitializeData(d)
    \/ CalculateAllMatPeriods
    \/ \E f \in Filters : FilterData(f)
    \/ \E m \in MatMonthSets : FilterDataByMat(m)
    \/ \E g \in Gdfs : CreateChoroplethMap(g)
    \/ \E g \in GroupByParams, a \in AggTypes : CreateTrendChart(g, a)
    \/ CreateBarChart

Spec == Init /\ [][Next]_vars

\* load_data_from_upload(uploaded_file) on a fresh session, as main() calls it
LoadDataFromUpload(u, consumed) ==
    /\ ret.op = "__init__"
    /\ ret' = [op |-> "load_data_from_upload", uploaded |-> u,
               consumed |-> consumed, value |-> load_data_from_upload(u, consumed)]
    /\ UNCHANGED <<df, all_mat_periods>>

\* main(): initialize_data(df) when the load returned a frame with rows
InitializeLoaded ==
    /\ ret.op = "load_data_from_upload"
    /\ ret.value # None
    /\ ~IsEmpty(ret.value)
    /\ LET d == Frame(ret.value.columns, ret.value.rows)
       IN /\ df' = calculate_all_mat_periods(d).source
          /\ all_mat_periods' = calculate_all_mat_periods(d).value
    /\ ret' = [op |-> "initialize_data"]

NextLoad ==
    \/ \E u \in Uploads : \E c \in Consumed(u) : LoadDataFromUpload(u, c)
    \/ InitializeLoaded

SpecLoad == Init /\ [][NextLoad]_vars

(***************************************************************************)
(* Properties                                                              *)
(***************************************************************************)
Called(op) == ret.op = op

\* the (year, month) pairs of the rows of d whose Year and Month both parse
ParsedPairs(d) ==
    {<<ToNumeric(d.rows[i].Year), MonthToNumeric(d.rows[i].Month)>> :
        i \in {j \in 1..Len(d.rows) :
                  /\ ~IsNa(ToNumeric(d.rows[j].Year))
                  /\ ~IsNa(MonthToNumeric(d.rows[j].Month))}}

HasTimeColumns(d) == d # None /\ {"Year", "Month"} \subseteq d.columns

PairLeq(a, b) == a[1] < b[1] \/ (a[1] = b[1] /\ a[2] <= b[2])

LatestPair(d) == CHOOSE a \in ParsedPairs(d) : \A b \in ParsedPairs(d) : PairLeq(b, a)

\* the calendar month after / before a (year, month) pair
MonthAfter(a) == IF a[2] = 12 THEN <<a[1] + 1, 1>> ELSE <<a[1], a[2] + 1>>
MonthBefore(a) == IF a[2] = 1 THEN <<a[1] - 1, 12>> ELSE <<a[1], a[2] - 1>>

EndOf(p) == <<p.end_year, p.end_month>>

\* C1: calculate_all_mat_periods never returns more than 24 periods,
\* whatever the extent of the data
C1_AtMost24Periods ==
    Called("calculate_all_mat_periods") => Len(ret.value) <= 24

\* the data cover more than 24 months and the cap has cut the list
C1_Witness ==
    /\ Called("calculate_all_mat_periods")
    /\ HasTimeColumns(df)
    /\ <<2021, 12>> \in ParsedPairs(df) /\ <<2023, 12>> \in ParsedPairs(df)
    /\ Len(ret.value) = 24

WellFormedPeriod(p) ==
    /\ Len(p.months) = 12
    /\ Cardinality({p.months[k] : k \in 1..12}) = 12
    /\ \A k \in 1..11 : p.months[k + 1] = MonthAfter(p.months[k])
    /\ p.months[12] = EndOf(p)

\* C2: every period returned has 12 distinct months, each the calendar month
\* after the previous one, the last being the period's end
C2_TwelveAscendingMonths ==
    Called("calculate_all_mat_periods") =>
        \A k \in 1..Len(ret.value) : WellFormedPeriod(ret.value[k])

\* a period whose window crosses a year boundary has been returned
C2_Witness ==
    /\ Called("calculate_all_mat_periods")
    /\ \E k \in 1..Len(ret.value) :
           ret.value[k].months[1][1] < ret.value[k].end_year

\* C3: with at least one row whose Year and Month parse, the first period
\* returned ends at the latest (year, month) pair of the data and every
\* later period ends one calendar month before its predecessor
C3_MostRecentFirst ==
    (/\ Called("calculate_all_mat_periods")
     /\ HasTimeColumns(df)
     /\ ParsedPairs(df) # {}
     /\ ret.value # <<>>) =>
        /\ EndOf(ret.value[1]) = LatestPair(df)
        /\ \A k \in 1..(Len(ret.value) - 1) :
               EndOf(ret.value[k + 1]) = MonthBefore(EndOf(ret.value[k]))

\* rows spanning Jan 2022 to Dec 2023: both months are in the data and every
\* row that parses lies between them
SpansJan2022ToDec2023(d) ==
    /\ HasTimeColumns(d)
    /\ <<2022, 1>> \in ParsedPairs(d) /\ <<2023, 12>> \in ParsedPairs(d)
    /\ \A a \in ParsedPairs(d) : a[1] \in {2022, 2023} /\ a[2] \in 1..12

RECURSIVE MonthsFrom(_, _)
\* the n calendar months starting at pair a
MonthsFrom(a, n) == IF n = 0 THEN <<>> ELSE <<a>> \o MonthsFrom(MonthAfter(a), n - 1)

\* C4 as stated: the first period is MAT_DEC_2023 and its months run from
\* (2022,1) to (2023,12)
C4_FirstPeriodFromJan2022 ==
    (Called("calculate_all_mat_periods") /\ SpansJan2022ToDec2023(df)) =>
        /\ ret.value # <<>>
        /\ ret.value[1].label = <<"MAT", "DEC", 2023>>
        /\ ret.value[1].months = MonthsFrom(<<2022, 1>>, 24)

\* C4 amended: the first period is MAT_DEC_2023 and its months are the twelve
\* months (2023,1) .. (2023,12)
C4_FirstPeriodIsYear2023 ==
    (Called("calculate_all_mat_periods") /\ SpansJan2022ToDec2023(df)) =>
        /\ ret.value # <<>>
        /\ ret.value[1].label = <<"MAT", "DEC", 2023>>
        /\ ret.value[1].months = MonthsFrom(<<2023, 1>>, 12)

C4_Witness ==
    /\ Called("calculate_all_mat_periods")
    /\ SpansJan2022ToDec2023(df)
    /\ Len(ret.value) = 24

\* value is made of rows of frame, in their order
IsSubFrame(value, frame) ==
    /\ value.columns = frame.columns
    /\ \E keep \in [1..Len(frame.rows) -> BOOLEAN] :
           SelectRows(frame.rows, keep) = value.rows

RowPairIn(row, columns, mat_months) ==
    /\ {"Year", "Month"} \subseteq columns
    /\ ~IsNa(ToNumeric(row.Year)) /\ ~IsNa(MonthToNumeric(row.Month))
    /\ <<ToNumeric(row.Year), MonthToNumeric(row.Month)>> \in mat_months

\* C5: filter_data_by_mat returns rows of its input, each with its
\* (Year, Month) pair in the supplied set; rows whose Year or Month does not
\* parse are not returned
C5_RowsWithinWindow ==
    Called("filter_data_by_mat") =>
        /\ IsSubFrame(ret.value, ret.frame)
        /\ \A k \in 1..Len(ret.value.rows) :
               RowPairIn(ret.value.rows[k], ret.value.columns, ret.mat_months)

RowCount(d, mat_months) == Len(filter_data_by_mat(d, mat_months).value.rows)

\* C6 as stated: for every subset of the window set, the empty one included,
\* the filter returns no more rows than for the window set
C6_MonotoneDownToEmpty ==
    Called("filter_data_by_mat") =>
        \A smaller \in SUBSET ret.mat_months :
            RowCount(ret.frame, smaller) <= Len(ret.value.rows)

\* C6 amended: for every non-empty subset of the window set, the filter
\* returns no more rows than for the window set
C6_MonotoneNonEmpty ==
    Called("filter_data_by_mat") =>
        \A smaller \in (SUBSET ret.mat_months) \ {{}} :
            RowCount(ret.frame, smaller) <= Len(ret.value.rows)

\* shrinking the window set to a non-empty subset has lost rows
C6_Witness ==
    /\ Called("filter_data_by_mat")
    /\ \E smaller \in (SUBSET ret.mat_months) \ {{}} :
           /\ 0 < RowCount(ret.frame, smaller)
           /\ RowCount(ret.frame, smaller) < Len(ret.value.rows)

\* a filter entry restricts when its set is non-empty, has no "All" and its
\* column is in the dataset
Restricts(filters, column, d) ==
    filters[column] # {} /\ "All" \notin filters[column] /\ column \in d.columns

RowPasses(row, filters, d) ==
    \A column \in DOMAIN filters :
        Restricts(filters, column, d) => row[column] \in filters[column]

\* C7: filter_data returns exactly the rows of the session dataset that pass
\* every restricting filter entry; with "All" in every entry it returns the
\* dataset as it is
C7_ExactlyThePassingRows ==
    (Called("filter_data") /\ df # None) =>
        /\ ret.value.columns = df.columns
        /\ ret.value.rows =
               SelectRows(df.rows, [i \in 1..Len(df.rows) |->
                                       RowPasses(df.rows[i], ret.filters, df)])
        /\ (\A column \in DOMAIN ret.filters : "All" \in ret.filters[column])
               => ret.value = df

\* a two-entry filter, one entry with "All" and one restricting, has kept
\* some rows and dropped others
C7_Witness ==
    /\ Called("filter_data") /\ df # None
    /\ \E c1, c2 \in DOMAIN ret.filters :
           "All" \in ret.filters[c1] /\ Restricts(ret.filters, c2, df)
    /\ 0 < Len(ret.value.rows) /\ Len(ret.value.rows) < Len(df.rows)

\* C8: once the session is initialised, no operation changes the session
\* dataset, which is also the frame the operations are passed
C8_SourceUnchanged == [][df # None => df' = df]_vars

\* filter_data_by_mat has added its two columns to its working frame,
\* filtered it and dropped them again
C8_Witness ==
    /\ Called("filter_data_by_mat")
    /\ ret.frame = df
    /\ ret.value.columns = df.columns
    /\ 0 < Len(ret.value.rows) /\ Len(ret.value.rows) < Len(df.rows)

RECURSIVE SumOfDivision(_, _, _)
\* the sum of value_col over the rows of the sequence with AdmDiv = division
SumOfDivision(rows, division, value_col) ==
    IF rows = <<>> THEN 0
    ELSE (IF Head(rows).AdmDiv = division THEN Head(rows)[value_col] ELSE 0)
             + SumOfDivision(Tail(rows), division, value_col)

MapBuilt == Called("create_choropleth_map") /\ ret.result.figure.kind = "choropleth"

\* C9: the joined map data has one row per boundary polygon, in their order,
\* carrying the sum of the value column over the sales rows of its AdmDiv,
\* which is 0 when there is none
C9_OneRowPerPolygon ==
    MapBuilt =>
        LET map_data == ret.result.figure.map_data
        IN /\ Len(map_data) = Len(ret.gdf.rows)
           /\ \A k \in 1..Len(map_data) :
                  /\ map_data[k].AdmDiv = ret.gdf.rows[k].AdmDiv
                  /\ map_data[k].geometry = ret.gdf.rows[k].geometry
                  /\ map_data[k].Value =
                         SumOfDivision(ret.frame.rows, map_data[k].AdmDiv,
                                       ret.value_col)

\* a map with a polygon that sums two sales rows and a polygon without sales
C9_Witness ==
    /\ MapBuilt
    /\ \E k \in 1..Len(ret.result.figure.map_data) :
           ret.result.figure.map_data[k].Value = 7
    /\ \E k \in 1..Len(ret.gdf.rows) :
           \A i \in 1..Len(ret.frame.rows) :
               ret.frame.rows[i].AdmDiv # ret.gdf.rows[k].AdmDiv

\* C10: every aggregation entry point returns the empty figure, and raises
\* nothing, when its dataset is empty or a column it references is absent
C10_EmptyResultNoError ==
    /\ (/\ Called("create_choropleth_map")
        /\ \/ IsEmpty(ret.frame)
           \/ ret.adm_col \notin ret.frame.columns
           \/ ret.value_col \notin ret.frame.columns)
           => ret.result = Returned(EmptyFigure)
    /\ (/\ Called("create_trend_chart")
        /\ \/ IsEmpty(ret.frame)
           \/ ret.time_col \notin ret.frame.columns
           \/ ret.value_var \notin ret.frame.columns
           \/ \E j \in 1..Len(ret.group_by_params) :
                  ret.group_by_params[j] \notin ret.frame.columns)
           => ret.result = Returned(EmptyFigure)
    /\ (/\ Called("create_bar_chart")
        /\ \/ IsEmpty(ret.frame)
           \/ ret.x_col \notin ret.frame.columns
           \/ ret.y_col \notin ret.frame.columns)
           => ret.result = Returned(EmptyFigure)

\* C14: with at least one row whose Year and Month both parse, a Month such
\* as 13 included, calculate_all_mat_periods returns a non-empty list
C14_NonEmptyWhenParseable ==
    (/\ Called("calculate_all_mat_periods")
     /\ HasTimeColumns(df)
     /\ ParsedPairs(df) # {}) => ret.value # <<>>

EarliestPair(d) == CHOOSE a \in ParsedPairs(d) : \A b \in ParsedPairs(d) : PairLeq(a, b)

\* the number of calendar months from pair a to pair b, both included
MonthsBetween(a, b) == (b[1] - a[1]) * 12 + (b[2] - a[2]) + 1

MonthsInRange(d) == \A a \in ParsedPairs(d) : a[2] \in 1..12

RECURSIVE MonthsBack(_, _)
\* the pair n calendar months before pair a
MonthsBack(a, n) == IF n = 0 THEN a ELSE MonthsBack(MonthBefore(a), n - 1)

Least(a, b) == IF a <= b THEN a ELSE b

\* C16: with every parseable Month in 1..12, the loop ends with min(24, N)
\* periods, N being the number of months from the earliest to the latest
\* pair; they end at the min(24, N) latest months, so the periods of the
\* N - 24 oldest months are the ones left out
C16_CountIsMin24N ==
    (/\ Called("calculate_all_mat_periods")
     /\ HasTimeColumns(df)
     /\ ParsedPairs(df) # {}
     /\ MonthsInRange(df)) =>
        LET N == MonthsBetween(EarliestPair(df), LatestPair(df))
        IN /\ Len(ret.value) = Least(24, N)
           /\ \A k \in 1..Len(ret.value) :
                  EndOf(ret.value[k]) = MonthsBack(LatestPair(df), k - 1)

\* 36 months of data: the 12 oldest months have no period
C16_Witness ==
    /\ Called("calculate_all_mat_periods")
    /\ HasTimeColumns(df)
    /\ ParsedPairs(df) = {<<2021, 1>>, <<2023, 12>>}
    /\ Len(ret.value) = 24
    /\ EndOf(ret.value[24]) = <<2022, 1>>

(***************************************************************************)
(* Properties of load_data_from_upload                                     *)
(***************************************************************************)
Loaded == Called("load_data_from_upload") /\ ret.value # None

\* the header of the uploaded content and its data lines
UploadedHeader == ret.uploaded.content[1]
UploadedLines == SubSeq(ret.uploaded.content, 2, Len(ret.uploaded.content))

\* the first attempt decoded the content, which was then read from its beginning
ReadFromBeginning == ret.consumed = 0

\* the position in the header of the column the load names c
HeaderIndex(c) == CHOOSE j \in 1..Len(UploadedHeader) : Strip(UploadedHeader[j]) = c

\* the number a raw measure cell stands for, 0 when missing or not a number
MeasureValue(cell) == IF cell = "100" THEN 100 ELSE 0

\* C11: after a successful load, no cell of a measure column is missing: a
\* missing or unparseable cell holds 0 and a parseable cell its number
C11_MeasuresFilled ==
    Loaded =>
        \A c \in numeric_cols \cap ret.value.columns :
            \A i \in 1..Len(ret.value.rows) :
                /\ ~IsNa(ret.value.rows[i][c])
                /\ ReadFromBeginning =>
                       ret.value.rows[i][c] = MeasureValue(UploadedLines[i][HeaderIndex(c)])

C11_Witness ==
    /\ Loaded
    /\ ReadFromBeginning
    /\ Len(UploadedLines) = 2
    /\ UploadedLines[1][4] = ""
    /\ UploadedLines[2][4] = "100"
    /\ ret.value.rows[1]["Amount_(BDT)"] = 0
    /\ ret.value.rows[2]["Amount_(BDT)"] = 100

\* C12: after a successful load, a cell that was missing in the input, in a
\* column that is not a measure, holds the text "Unknown" (Month holds
\* numbers, so a Month cell never holds that text)
C12_MissingTextIsUnknown ==
    (Loaded /\ ReadFromBeginning) =>
        \A j \in 1..Len(UploadedHeader) : \A i \in 1..Len(UploadedLines) :
            LET c == Strip(UploadedHeader[j])
            IN (c \notin numeric_cols /\ UploadedLines[i][j] = "") =>
                   (c # "Month" /\ ret.value.rows[i][c] = "Unknown")

\* C13: when an attempt failed to decode content that holds data rows, the
\* load still returns a dataset, with one row per data line of the content
C13_EveryRowAfterFailedAttempt ==
    (/\ Called("load_data_from_upload")
     /\ ret.uploaded.bad \in 1..Len(ret.uploaded.content)
     /\ UploadedLines # <<>>) =>
        /\ ret.value # None
        /\ Len(ret.value.rows) = Len(UploadedLines)

\* C15: the load returns what the steps before the memory optimization built:
\* a failure when they fail, and otherwise the same columns and rows
C15_OptimizationNonSemantic ==
    Called("load_data_from_upload") =>
        LET d == IngestedFrame(ret.uploaded, ret.consumed)
        IN IF d = None THEN ret.value = None
           ELSE /\ ret.value # None
                /\ ret.value.columns = d.columns
                /\ ret.value.rows = d.rows
====
